---- MODULE Spec2Model ----
(***************************************************************************)
(* ReadyRecipe: the ingredient matcher, the embedding generator, the       *)
(* metric calculators, the generateRecipes server action, the results      *)
(* page and the match normalizer / sorter.                                 *)
(*                                                                         *)
(* A string is a sequence of one-character strings.  Numbers that the      *)
(* program keeps as floats are kept here as exact rationals <<num, den>>.  *)
(***************************************************************************)
EXTENDS Integers, Sequences, FiniteSets, TLC

VARIABLES
    userIngredient,     \* matcher harness: first argument of ingredientMatches
    recipeIngredient,   \* matcher harness: second argument of ingredientMatches
    matchOut,           \* matcher harness: the results of the calls, once made
    userIngredients,    \* metric harness: the user's ingredient list
    recipeIngredients,  \* metric harness: one recipe's ingredient list
    metricsOut,         \* metric harness: the metrics, once calculated
    openaiKey,          \* process.env.OPENAI_API_KEY is set
    spoonacularKey,     \* isSpoonacularAvailable()
    cosineTable,        \* the cosine of the user's and each recipe's vector
    selectedIngredients,\* generateRecipes: its argument
    pc,                 \* generateRecipes: where the call stands
    userEmbedding,      \* generateRecipes: the settled user embedding call
    recipeMap,          \* generateRecipes: the remote recipes, keyed by id
    recipes,            \* generateRecipes: the candidates handed to scoreRecipes
    tasks,              \* scoreRecipes: one scoring task per candidate
    returned,           \* generateRecipes: the list it resolved with
    page,               \* results page: the list it shows, once loaded
    matchValue,         \* sorter harness: the argument of normalizeMatchValue
    recipesArg,         \* sorter harness: the argument of filterAndSortRecipes
    sortOut,            \* sorter harness: the results of the calls, once made
    customIngredients,  \* ingredient store: the custom ingredients, by slug
    addOut,             \* ingredient store: the last addIngredient call
    allOut              \* ingredient store: the last getAllIngredients call

matchVars == <<userIngredient, recipeIngredient, matchOut>>
metricVars == <<userIngredients, recipeIngredients, metricsOut>>
envVars == <<openaiKey, spoonacularKey, cosineTable, selectedIngredients>>
callVars == <<pc, userEmbedding, recipeMap, recipes, tasks, returned>>
pageVars == <<page>>
sortVars == <<matchValue, recipesArg, sortOut>>
storeVars == <<customIngredients, addOut, allOut>>
vars == <<matchVars, metricVars, envVars, callVars, pageVars, sortVars, storeVars>>

----------------------------------------------------------------------------
(* Bounds *)

MaxUserChars == 2
MaxRecipeChars == 3
MaxListLen == 2
MaxSelected == 2
MaxMatchChars == 3
MaxRecipes == 3
MaxAdds == 3

----------------------------------------------------------------------------
(* Characters and strings *)

\* The characters the inputs are drawn from: two lowercase letters, an
\* uppercase letter, whitespace, and a punctuation character that is also a
\* regular-expression metacharacter.
Chars == {"a", "b", "A", " ", "."}

StringsUpTo(n) == UNION {[1..k -> Chars] : k \in 0..n}

LowerChar(c) == IF c = "A" THEN "a" ELSE c

IsSpace(c) == c = " "

\* \w of a JavaScript regular expression without the u flag: [A-Za-z0-9_]
IsWordChar(c) == c \in {"a", "b", "A"}

toLowerCase(s) == [i \in 1..Len(s) |-> LowerChar(s[i])]

RECURSIVE trimStart(_)
trimStart(s) ==
    IF s = <<>> \/ ~IsSpace(Head(s)) THEN s ELSE trimStart(Tail(s))

RECURSIVE trimEnd(_)
trimEnd(s) ==
    IF s = <<>> \/ ~IsSpace(s[Len(s)]) THEN s
    ELSE trimEnd(SubSeq(s, 1, Len(s) - 1))

trim(s) == trimEnd(trimStart(s))

normalizeIngredient(ingredient) == trim(toLowerCase(ingredient))

\* .replace(/\s+/g, '-')
RECURSIVE replaceWhitespaceRuns(_)
replaceWhitespaceRuns(s) ==
    IF s = <<>> THEN <<>>
    ELSE IF IsSpace(Head(s))
         THEN <<"-">> \o replaceWhitespaceRuns(trimStart(Tail(s)))
         ELSE <<Head(s)>> \o replaceWhitespaceRuns(Tail(s))

\* [a-z0-9-] on the characters of the model
IsSlugChar(c) == c \in {"a", "b", "-"}

\* .replace(/[^a-z0-9-]/g, '')
removeNonSlugChars(s) == SelectSeq(s, IsSlugChar)

\* .replace(/-+/g, '-')
RECURSIVE collapseHyphens(_)
collapseHyphens(s) ==
    IF s = <<>> THEN <<>>
    ELSE IF Len(s) >= 2 /\ s[1] = "-" /\ s[2] = "-"
         THEN collapseHyphens(Tail(s))
         ELSE <<Head(s)>> \o collapseHyphens(Tail(s))

\* .replace(/^-+|-+$/g, '')
RECURSIVE stripHyphens(_)
stripHyphens(s) ==
    IF s = <<>> THEN s
    ELSE IF Head(s) = "-" THEN stripHyphens(Tail(s))
    ELSE IF s[Len(s)] = "-" THEN stripHyphens(SubSeq(s, 1, Len(s) - 1))
    ELSE s

generateIngredientSlug(ingredient) ==
    stripHyphens(collapseHyphens(removeNonSlugChars(
        replaceWhitespaceRuns(trim(toLowerCase(ingredient))))))

----------------------------------------------------------------------------
(* Regular expressions: new RegExp(source, 'i') and RegExp.prototype.test *)

RegexSpecialChars ==
    {".", "*", "+", "?", "^", "$", "{", "}", "(", ")", "|", "[", "]", "\\"}

escapeRegexNoEscape(str) == str

RECURSIVE escapeRegexRec(_)
escapeRegexRec(str) ==
    IF str = <<>> THEN <<>>
    ELSE (IF Head(str) \in RegexSpecialChars
          THEN <<"\\", Head(str)>> ELSE <<Head(str)>>)
         \o escapeRegexRec(Tail(str))

escapeRegex(str) == escapeRegexRec(str)

\* The source text `\b${escaped}\b`
WordBoundedSource(escaped) == <<"\\", "b">> \o escaped \o <<"\\", "b">>

\* The pattern a source text compiles to: a sequence of atoms.  A backslash
\* followed by b is the word-boundary assertion, a backslash followed by any
\* other character is that character, an unescaped dot is any character.
RECURSIVE CompileRegExp(_)
CompileRegExp(src) ==
    IF src = <<>> THEN <<>>
    ELSE IF Head(src) = "\\" /\ Len(src) >= 2
         THEN <<IF src[2] = "b" THEN [kind |-> "boundary", c |-> ""]
                ELSE [kind |-> "char", c |-> src[2]]>>
              \o CompileRegExp(SubSeq(src, 3, Len(src)))
    ELSE IF Head(src) = "."
         THEN <<[kind |-> "any", c |-> ""]>> \o CompileRegExp(Tail(src))
    ELSE <<[kind |-> "char", c |-> Head(src)]>> \o CompileRegExp(Tail(src))

IsWordAt(s, i) == i \in 1..Len(s) /\ IsWordChar(s[i])

\* \b holds between s[pos] and s[pos+1] when exactly one of them is a word
\* character (the ends of the string count as non-word).
IsWordBoundary(s, pos) == IsWordAt(s, pos) # IsWordAt(s, pos + 1)

\* The atoms match s with pos characters already consumed (flag i: case is
\* ignored).
RECURSIVE MatchHere(_, _, _)
MatchHere(atoms, s, pos) ==
    IF atoms = <<>> THEN TRUE
    ELSE LET a == Head(atoms) IN
         IF a.kind = "boundary"
         THEN IsWordBoundary(s, pos) /\ MatchHere(Tail(atoms), s, pos)
         ELSE IF a.kind = "any"
         THEN pos < Len(s) /\ MatchHere(Tail(atoms), s, pos + 1)
         ELSE /\ pos < Len(s)
              /\ LowerChar(s[pos + 1]) = LowerChar(a.c)
              /\ MatchHere(Tail(atoms), s, pos + 1)

RegExpTest(atoms, s) == \E start \in 0..Len(s) : MatchHere(atoms, s, start)

----------------------------------------------------------------------------
(* ingredientMatches *)

ingredientMatchesOneWay(userIngredientArg, recipeIngredientArg) ==
    LET userLower == trim(toLowerCase(userIngredientArg))
        recipeLower == trim(toLowerCase(recipeIngredientArg))
        userRegex == CompileRegExp(WordBoundedSource(escapeRegex(userLower)))
    IN  IF userLower = recipeLower THEN TRUE
        ELSE RegExpTest(userRegex, recipeLower)

ingredientMatches(userIngredientArg, recipeIngredientArg) ==
    LET userLower == trim(toLowerCase(userIngredientArg))
        recipeLower == trim(toLowerCase(recipeIngredientArg))
        userRegex == CompileRegExp(WordBoundedSource(escapeRegex(userLower)))
        recipeRegex == CompileRegExp(WordBoundedSource(escapeRegex(recipeLower)))
    IN  IF userLower = recipeLower THEN TRUE
        ELSE RegExpTest(userRegex, recipeLower)
             \/ RegExpTest(recipeRegex, userLower)

----------------------------------------------------------------------------
(* Numbers: a float is kept as the exact fraction num / den; den = 0 is    *)
(* the result of a division by zero (NaN or Infinity).                     *)

RECURSIVE Gcd(_, _)
Gcd(m, n) == IF n = 0 THEN m ELSE Gcd(n, m % n)

Abs(n) == IF n < 0 THEN -n ELSE n

\* n / d in lowest terms (the same number; it keeps the integers small)
Frac(n, d) ==
    IF d = 0 THEN [num |-> n, den |-> 0]
    ELSE LET g == Gcd(Abs(n), Abs(d))
         IN  [num |-> n \div g, den |-> d \div g]

FracAdd(x, y) == Frac(x.num * y.den + y.num * x.den, x.den * y.den)

FracMul(x, y) == Frac(x.num * y.num, x.den * y.den)

FracIsFinite(x) == x.den # 0

\* x < y, x = y for finite fractions with positive denominators
FracLess(x, y) == x.num * y.den < y.num * x.den
FracEq(x, y) == x.num * y.den = y.num * x.den

----------------------------------------------------------------------------
(* Array helpers *)

\* String.prototype.split(/\s+/): the pieces between maximal runs of
\* whitespace, empty pieces at the ends included ("" gives [""]).
RECURSIVE SplitFrom(_, _)
SplitFrom(s, piece) ==
    IF s = <<>> THEN <<piece>>
    ELSE IF IsSpace(Head(s))
         THEN <<piece>> \o SplitFrom(trimStart(Tail(s)), <<>>)
         ELSE SplitFrom(Tail(s), Append(piece, Head(s)))

splitWhitespace(s) == SplitFrom(s, <<>>)

\* Array.prototype.includes
includes(arr, x) == \E i \in 1..Len(arr) : arr[i] = x

----------------------------------------------------------------------------
(* Metric calculators *)

\* The predicate inside calculateExactMatches
ExactPredicateNoWordCountCheck(userIngredientArg, recipeIngredientArg) ==
    LET userLower == trim(toLowerCase(userIngredientArg))
        recipeLower == trim(toLowerCase(recipeIngredientArg))
        userWords == splitWhitespace(userLower)
        recipeWords == splitWhitespace(recipeLower)
        shorter == IF Len(userWords) < Len(recipeWords)
                   THEN userWords ELSE recipeWords
        longer == IF Len(userWords) < Len(recipeWords)
                  THEN recipeWords ELSE userWords
    IN  IF userLower = recipeLower THEN TRUE
        ELSE IF Len(userWords) # Len(recipeWords)
        THEN \A i \in 1..Len(shorter) : includes(longer, shorter[i])
        ELSE \A i \in 1..Len(userWords) : userWords[i] = recipeWords[i]

ExactPredicate(userIngredientArg, recipeIngredientArg) ==
    LET userLower == trim(toLowerCase(userIngredientArg))
        recipeLower == trim(toLowerCase(recipeIngredientArg))
        userWords == splitWhitespace(userLower)
        recipeWords == splitWhitespace(recipeLower)
        shorter == IF Len(userWords) < Len(recipeWords)
                   THEN userWords ELSE recipeWords
        longer == IF Len(userWords) < Len(recipeWords)
                  THEN recipeWords ELSE userWords
    IN  IF userLower = recipeLower THEN TRUE
        ELSE IF \/ (Len(userWords) = 1 /\ Len(recipeWords) > 1)
                \/ (Len(userWords) > 1 /\ Len(recipeWords) = 1)
        THEN FALSE
        ELSE IF Len(userWords) # Len(recipeWords)
        THEN \A i \in 1..Len(shorter) : includes(longer, shorter[i])
        ELSE \A i \in 1..Len(userWords) : userWords[i] = recipeWords[i]

calculateExactMatches(userList, recipeList) ==
    LET Hit(recipeIng) ==
            \E i \in 1..Len(userList) : ExactPredicate(userList[i], recipeIng)
    IN  Len(SelectSeq(recipeList, Hit))

calculateIngredientMatchRateNoGuard(userList, recipeList) ==
    LET Found(userIng) ==
            \E i \in 1..Len(recipeList) : ingredientMatches(userIng, recipeList[i])
    IN  Frac(Len(SelectSeq(userList, Found)), Len(userList))

calculateIngredientMatchRate(userList, recipeList) ==
    LET Found(userIng) ==
            \E i \in 1..Len(recipeList) : ingredientMatches(userIng, recipeList[i])
        foundCount == Len(SelectSeq(userList, Found))
    IN  IF Len(userList) = 0 THEN Frac(0, 1)
        ELSE Frac(foundCount, Len(userList))

\* calculateCoverageScore: the matched recipe ingredients over all recipe
\* ingredients, divided without a check of the divisor (0 / 0 for none)
calculateCoverageScore(userList, recipeList) ==
    LET Hit(recipeIng) ==
            \E i \in 1..Len(userList) : ingredientMatches(userList[i], recipeIng)
    IN  Frac(Len(SelectSeq(recipeList, Hit)), Len(recipeList))

----------------------------------------------------------------------------
(* Embeddings.  A vector is kept as its number of components and the       *)
(* generator and text that produced it; its components are not computed.   *)

EmbeddingDim == 384
OpenAIEmbeddingDim == 1536

NoVector == [len |-> 0, gen |-> "none", text |-> <<>>]

generateSimpleEmbedding(text) ==
    [len |-> EmbeddingDim, gen |-> "generateSimpleEmbedding", text |-> text]

\* response.data[0].embedding of a successful embeddings.create call for
\* model text-embedding-3-small (no dimensions parameter is sent)
OpenAIEmbedding(text) ==
    [len |-> OpenAIEmbeddingDim, gen |-> "text-embedding-3-small", text |-> text]

\* How the external embeddings.create call of one generateEmbedding ends
CallOutcomes == {"ok", "rejects"}

NoEmbeddingCall == [settled |-> FALSE, rejected |-> FALSE,
                    value |-> NoVector, text |-> <<>>, outcome |-> "none",
                    log |-> "none"]

generateEmbeddingRethrows(text, keySet, outcome) ==
    IF ~keySet
    THEN [settled |-> TRUE, rejected |-> FALSE,
          value |-> generateSimpleEmbedding(text), text |-> text,
          outcome |-> "none", log |-> "EMBEDDING_SOURCE=FALLBACK"]
    ELSE IF outcome = "ok"
    THEN [settled |-> TRUE, rejected |-> FALSE,
          value |-> OpenAIEmbedding(text), text |-> text,
          outcome |-> outcome, log |-> "EMBEDDING_SOURCE=OpenAI"]
    ELSE [settled |-> TRUE, rejected |-> TRUE,
          value |-> NoVector, text |-> text,
          outcome |-> outcome, log |-> "none"]

generateEmbedding(text, keySet, outcome) ==
    IF ~keySet
    THEN [settled |-> TRUE, rejected |-> FALSE,
          value |-> generateSimpleEmbedding(text), text |-> text,
          outcome |-> "none", log |-> "EMBEDDING_SOURCE=FALLBACK"]
    ELSE IF outcome = "ok"
    THEN [settled |-> TRUE, rejected |-> FALSE,
          value |-> OpenAIEmbedding(text), text |-> text,
          outcome |-> outcome, log |-> "EMBEDDING_SOURCE=OpenAI"]
    ELSE [settled |-> TRUE, rejected |-> FALSE,
          value |-> generateSimpleEmbedding(text), text |-> text,
          outcome |-> outcome, log |-> "EMBEDDING_SOURCE=FALLBACK (OpenAI error)"]

\* cosineSimilarity throws when the lengths differ.  Otherwise its value is
\* 1 for a vector with itself and else the table's entry, in thousandths.
cosineSimilarity(vec1, vec2, thousandths) ==
    IF vec1.len # vec2.len
    THEN [threw |-> TRUE, value |-> Frac(0, 1)]
    ELSE [threw |-> FALSE,
          value |-> IF vec1 = vec2 THEN Frac(1, 1) ELSE Frac(thousandths, 1000)]

----------------------------------------------------------------------------
(* scoreRecipes: the body of one scoring task, from the point where its    *)
(* recipe embedding has settled.                                           *)

FracMax(x, y) == IF FracLess(x, y) THEN y ELSE x
FracMin(x, y) == IF FracLess(y, x) THEN y ELSE x

\* Array.prototype.join(", ")
RECURSIVE join(_)
join(list) ==
    IF list = <<>> THEN <<>>
    ELSE IF Len(list) = 1 THEN list[1]
    ELSE list[1] \o <<",", " ">> \o join(Tail(list))

NoScore ==
    [recipe |-> [id |-> "none", name |-> <<>>, ingredients |-> <<>>],
     similarityScore |-> Frac(0, 1), ingredientMatchRate |-> Frac(0, 1),
     utilizationScore |-> Frac(0, 1), exactMatches |-> 0,
     combinedScore |-> Frac(0, 1),
     matchedIngredients |-> <<>>, missingIngredients |-> <<>>]

\* The recipe ingredients that are among the user's, string for string
MatchedIngredientsByEquality(recipe, selected) ==
    LET Hit(recipeIng) == includes(selected, recipeIng)
    IN  SelectSeq(recipe.ingredients, Hit)

\* recipe.ingredients.filter(r => selectedIngredients.some(u => ingredientMatches(u, r)))
MatchedIngredients(recipe, selected) ==
    LET Hit(recipeIng) ==
            \E i \in 1..Len(selected) : ingredientMatches(selected[i], recipeIng)
    IN  SelectSeq(recipe.ingredients, Hit)

MissingIngredientsByEquality(recipe, selected) ==
    LET Miss(recipeIng) == ~includes(selected, recipeIng)
    IN  SelectSeq(recipe.ingredients, Miss)

\* recipe.ingredients.filter(r => !selectedIngredients.some(u => ingredientMatches(u, r)))
MissingIngredients(recipe, selected) ==
    LET Miss(recipeIng) ==
            ~\E i \in 1..Len(selected) : ingredientMatches(selected[i], recipeIng)
    IN  SelectSeq(recipe.ingredients, Miss)

\* The weights README and SETUP_GUIDE give for the three terms of the formula
combinedScoreWeightsDocumented ==
    [ingredientMatchRate |-> Frac(35, 100),
     exactMatchPercentage |-> Frac(10, 100),
     similarityScore |-> Frac(40, 100)]

\* The factors of the three terms of combinedScore
combinedScoreWeights ==
    [ingredientMatchRate |-> Frac(50, 100),
     exactMatchPercentage |-> Frac(35, 100),
     similarityScore |-> Frac(15, 100)]

\* exactMatches / recipe.ingredients.length, 0 for a recipe without ingredients
exactMatchPercentageOf(exactMatches, recipe) ==
    IF Len(recipe.ingredients) > 0
    THEN Frac(exactMatches, Len(recipe.ingredients))
    ELSE Frac(0, 1)

\* The similarity as cosineSimilarity gives it
clampSimilarityNone(similarity) == similarity

\* Math.max(0, Math.min(1, similarityScore))
clampSimilarity(similarity) ==
    FracMax(Frac(0, 1), FracMin(Frac(1, 1), similarity))

ScoreRecipe(recipe, selected, userVec, recipeVec, thousandths) ==
    LET cos == cosineSimilarity(userVec, recipeVec, thousandths)
        similarityScore == clampSimilarity(cos.value)
        ingredientMatchRate ==
            calculateIngredientMatchRate(selected, recipe.ingredients)
        exactMatches == calculateExactMatches(selected, recipe.ingredients)
        matchedIngredients == MatchedIngredients(recipe, selected)
        missingIngredients == MissingIngredients(recipe, selected)
        utilizationScore ==
            IF Len(recipe.ingredients) = 0 THEN Frac(0, 1)
            ELSE Frac(Len(matchedIngredients), Len(recipe.ingredients))
        exactMatchPercentage == exactMatchPercentageOf(exactMatches, recipe)
        combinedScore ==
            FracAdd(FracAdd(FracMul(ingredientMatchRate,
                                    combinedScoreWeights.ingredientMatchRate),
                            FracMul(exactMatchPercentage,
                                    combinedScoreWeights.exactMatchPercentage)),
                    FracMul(similarityScore,
                            combinedScoreWeights.similarityScore))
    IN  [threw |-> cos.threw,
         score |-> [recipe |-> recipe,
                    similarityScore |-> similarityScore,
                    ingredientMatchRate |-> ingredientMatchRate,
                    utilizationScore |-> utilizationScore,
                    exactMatches |-> exactMatches,
                    combinedScore |-> combinedScore,
                    matchedIngredients |-> matchedIngredients,
                    missingIngredients |-> missingIngredients]]

\* Array.prototype.sort((a, b) => b.combinedScore - a.combinedScore): stable,
\* highest combinedScore first
RECURSIVE InsertByCombinedScore(_, _)
InsertByCombinedScore(x, sorted) ==
    IF sorted = <<>> THEN <<x>>
    ELSE IF FracLess(Head(sorted).combinedScore, x.combinedScore)
         THEN <<x>> \o sorted
         ELSE <<Head(sorted)>> \o InsertByCombinedScore(x, Tail(sorted))

RECURSIVE sortByCombinedScore(_)
sortByCombinedScore(list) ==
    IF list = <<>> THEN <<>>
    ELSE InsertByCombinedScore(list[Len(list)],
                               sortByCombinedScore(SubSeq(list, 1, Len(list) - 1)))

----------------------------------------------------------------------------
(* Match values.  A JavaScript value is kept as its type with its number   *)
(* (for a number) or its characters (for a string).  NaN is 0/0, Infinity  *)
(* is 1/0 and -Infinity is -1/0.                                           *)

NaN == [num |-> 0, den |-> 0]
Infinity == [num |-> 1, den |-> 0]
NegInfinity == [num |-> -1, den |-> 0]

JsUndefined == [type |-> "undefined", num |-> NaN, str |-> <<>>]
JsNull == [type |-> "null", num |-> NaN, str |-> <<>>]
JsNumber(x) == [type |-> "number", num |-> x, str |-> <<>>]
JsString(s) == [type |-> "string", num |-> NaN, str |-> s]

isNaN(x) == x.den = 0 /\ x.num = 0
isFinite(x) == x.den # 0

\* x > y
NumGreater(x, y) ==
    IF isNaN(x) \/ isNaN(y) THEN FALSE
    ELSE IF isFinite(x) /\ isFinite(y) THEN FracLess(y, x)
    ELSE IF ~isFinite(x) /\ ~isFinite(y) THEN x.num > y.num
    ELSE IF ~isFinite(x) THEN x.num > 0
    ELSE y.num < 0

\* x <= y
NumLessEq(x, y) == ~isNaN(x) /\ ~isNaN(y) /\ ~NumGreater(x, y)

\* x - y
NumSub(x, y) ==
    IF isNaN(x) \/ isNaN(y) THEN NaN
    ELSE IF isFinite(x) /\ isFinite(y)
         THEN FracAdd(x, FracMul(y, Frac(-1, 1)))
    ELSE IF ~isFinite(x) /\ ~isFinite(y)
         THEN (IF x.num = y.num THEN NaN ELSE x)
    ELSE IF ~isFinite(x) THEN x
    ELSE [num |-> -y.num, den |-> 0]

\* Math.max(0, x)
MathMaxZero(x) ==
    IF isNaN(x) THEN NaN
    ELSE IF NumGreater(x, Frac(0, 1)) THEN x ELSE Frac(0, 1)

Digits == {"0", "1", "2", "3", "4", "5", "6", "7", "8", "9"}

DigitValue(c) ==
    CASE c = "0" -> 0 [] c = "1" -> 1 [] c = "2" -> 2 [] c = "3" -> 3
      [] c = "4" -> 4 [] c = "5" -> 5 [] c = "6" -> 6 [] c = "7" -> 7
      [] c = "8" -> 8 [] c = "9" -> 9

\* The number of digits of s from position i on
RECURSIVE DigitRun(_, _)
DigitRun(s, i) ==
    IF i <= Len(s) /\ s[i] \in Digits THEN 1 + DigitRun(s, i + 1) ELSE 0

\* The value of the n digits of s from position i on
RECURSIVE DigitsValue(_, _, _)
DigitsValue(s, i, n) ==
    IF n = 0 THEN 0
    ELSE 10 * DigitsValue(s, i, n - 1) + DigitValue(s[i + n - 1])

RECURSIVE Pow10(_)
Pow10(n) == IF n = 0 THEN 1 ELSE 10 * Pow10(n - 1)

InfinityLiteral == <<"I", "n", "f", "i", "n", "i", "t", "y">>

\* parseFloat: leading whitespace is skipped, then the longest prefix that
\* is a decimal literal (sign, digits, fraction, exponent) or a signed
\* "Infinity" is converted; NaN when there is no such prefix.
parseFloat(str) ==
    LET s == trimStart(str)
        signed == Len(s) >= 1 /\ s[1] \in {"+", "-"}
        negative == Len(s) >= 1 /\ s[1] = "-"
        p == IF signed THEN 2 ELSE 1
        intLen == DigitRun(s, p)
        hasDot == p + intLen <= Len(s) /\ s[p + intLen] = "."
        fracLen == IF hasDot THEN DigitRun(s, p + intLen + 1) ELSE 0
        q == p + intLen + (IF hasDot THEN 1 + fracLen ELSE 0)
        hasE == q <= Len(s) /\ s[q] \in {"e", "E"}
        expSigned == hasE /\ q + 1 <= Len(s) /\ s[q + 1] \in {"+", "-"}
        expStart == IF expSigned THEN q + 2 ELSE q + 1
        expLen == IF hasE THEN DigitRun(s, expStart) ELSE 0
        exponent == DigitsValue(s, expStart, expLen)
        expNegative == expSigned /\ s[q + 1] = "-"
        mantissa == DigitsValue(s, p, intLen) * Pow10(fracLen)
                    + DigitsValue(s, p + intLen + 1, fracLen)
        sign == IF negative THEN -1 ELSE 1
    IN  IF Len(s) >= p + 7 /\ SubSeq(s, p, p + 7) = InfinityLiteral
        THEN (IF negative THEN NegInfinity ELSE Infinity)
        ELSE IF intLen = 0 /\ fracLen = 0 THEN NaN
        ELSE IF expLen = 0 THEN Frac(sign * mantissa, Pow10(fracLen))
        ELSE IF expNegative
             THEN Frac(sign * mantissa, Pow10(fracLen) * Pow10(exponent))
        ELSE Frac(sign * mantissa * Pow10(exponent), Pow10(fracLen))

\* String.prototype.replace(/%$/, "")
removeTrailingPercent(s) ==
    IF Len(s) > 0 /\ s[Len(s)] = "%" THEN SubSeq(s, 1, Len(s) - 1) ELSE s

\* String.prototype.replace(/%/g, "")
removeAllPercent(s) ==
    LET NotPercent(c) == c # "%"
    IN  SelectSeq(s, NotPercent)

\* The fraction rule and the return statement shared by the two branches of
\* normalizeMatchValue
NormalizeNumber(x) ==
    IF NumGreater(x, Frac(0, 1)) /\ NumLessEq(x, Frac(1, 1))
    THEN FracMul(x, Frac(100, 1))
    ELSE MathMaxZero(x)

normalizeMatchValueNoFractionRule(value) ==
    IF value.type \in {"null", "undefined"} THEN Frac(0, 1)
    ELSE IF value.type = "string"
         THEN LET parsed == parseFloat(removeTrailingPercent(trim(value.str)))
              IN  IF isNaN(parsed) THEN Frac(0, 1) ELSE MathMaxZero(parsed)
    ELSE IF value.type = "number"
         THEN (IF isNaN(value.num) \/ ~isFinite(value.num) THEN Frac(0, 1)
               ELSE NormalizeNumber(value.num))
    ELSE Frac(0, 1)

\* lib/sortRecipes normalizeMatchValue
normalizeMatchValue(value) ==
    IF value.type \in {"null", "undefined"} THEN Frac(0, 1)
    ELSE IF value.type = "string"
         THEN LET cleanedValue == removeTrailingPercent(trim(value.str))
                  parsed == parseFloat(cleanedValue)
              IN  IF isNaN(parsed) THEN Frac(0, 1) ELSE NormalizeNumber(parsed)
    ELSE IF value.type = "number"
         THEN (IF isNaN(value.num) \/ ~isFinite(value.num) THEN Frac(0, 1)
               ELSE NormalizeNumber(value.num))
    ELSE Frac(0, 1)

\* utils/sortRecipes parseMatchValue: what it makes of the number it has
\* (Number.isFinite, the fraction rule, else the number itself)
parseMatchValueOfNumber(parsed) ==
    IF ~isFinite(parsed) THEN Frac(0, 1)
    ELSE IF NumGreater(parsed, Frac(0, 1)) /\ NumLessEq(parsed, Frac(1, 1))
         THEN FracMul(parsed, Frac(100, 1))
    ELSE parsed

\* utils/sortRecipes parseMatchValue
parseMatchValue(value) ==
    IF value.type \in {"null", "undefined"} THEN Frac(0, 1)
    ELSE IF value.type = "number" THEN parseMatchValueOfNumber(value.num)
    ELSE IF value.type = "string"
         THEN parseMatchValueOfNumber(
                  parseFloat(trim(removeAllPercent(value.str))))
    ELSE Frac(0, 1)

\* recipe[key]: undefined for a property the object does not have
ReadProperty(obj, key) == IF key \in DOMAIN obj THEN obj[key] ELSE JsUndefined

\* recipe.coverageScore
coverageScoreOf(recipe) == ReadProperty(recipe, "coverageScore")

\* A sort that is not stable: an item goes before the items of its own match
RECURSIVE InsertByMatchBeforeEqual(_, _)
InsertByMatchBeforeEqual(x, sorted) ==
    IF sorted = <<>> THEN <<x>>
    ELSE IF ~NumGreater(NumSub(Head(sorted).m, x.m), Frac(0, 1))
         THEN <<x>> \o sorted
         ELSE <<Head(sorted)>> \o InsertByMatchBeforeEqual(x, Tail(sorted))

\* Array.prototype.sort((a, b) => b.m - a.m): stable; b goes before a only
\* when b.m - a.m > 0 (a NaN difference compares as equal)
RECURSIVE InsertByMatch(_, _)
InsertByMatch(x, sorted) ==
    IF sorted = <<>> THEN <<x>>
    ELSE IF NumGreater(NumSub(x.m, Head(sorted).m), Frac(0, 1))
         THEN <<x>> \o sorted
         ELSE <<Head(sorted)>> \o InsertByMatch(x, Tail(sorted))

RECURSIVE sortByMatch(_)
sortByMatch(list) ==
    IF list = <<>> THEN <<>>
    ELSE InsertByMatch(list[Len(list)],
                       sortByMatch(SubSeq(list, 1, Len(list) - 1)))

Originals(pairs) == [i \in 1..Len(pairs) |-> pairs[i].original]

\* The argument of filterAndSortRecipes: a value of some type; an array has
\* its items.
ArrayArg(items) == [type |-> "array", items |-> items]
OtherArg(type) == [type |-> type, items |-> <<>>]

\* The value of an array spread [...x]: only null, undefined, a number and a
\* plain object are modelled besides arrays, and none of them is iterable
IsIterable(arg) == arg.type = "array"

\* !x for null, undefined, a non-zero number, a plain object, an array
IsFalsy(arg) == arg.type \in {"null", "undefined"}

Returns(list) == [threw |-> FALSE, value |-> list]
Throws == [threw |-> TRUE, value |-> <<>>]

filterAndSortRecipesKeepsZero(recipeList) ==
    IF ~IsIterable(recipeList) THEN Throws
    ELSE LET pairs == [i \in 1..Len(recipeList.items) |->
                 [original |-> recipeList.items[i],
                  m |-> normalizeMatchValue(ReadProperty(recipeList.items[i], "match"))]]
             Kept(pair) == ~NumGreater(Frac(0, 1), pair.m)
         IN  Returns(Originals(sortByMatch(SelectSeq(pairs, Kept))))

\* lib/sortRecipes filterAndSortRecipes, with the default matchKey
filterAndSortRecipes(recipeList) ==
    IF ~IsIterable(recipeList) THEN Throws
    ELSE LET pairs == [i \in 1..Len(recipeList.items) |->
                 [original |-> recipeList.items[i],
                  m |-> normalizeMatchValue(ReadProperty(recipeList.items[i], "match"))]]
             Kept(pair) == NumGreater(pair.m, Frac(0, 1))
         IN  Returns(Originals(sortByMatch(SelectSeq(pairs, Kept))))

\* utils/sortRecipes filterAndSortRecipes (the one with a matchKey), with the
\* default matchKey: recipes.map is no function for a non-array
utilsFilterAndSortRecipes(recipeList) ==
    IF IsFalsy(recipeList) THEN Returns(<<>>)
    ELSE IF recipeList.type # "array" THEN Throws
    ELSE LET pairs == [i \in 1..Len(recipeList.items) |->
                 [original |-> recipeList.items[i],
                  m |-> parseMatchValue(ReadProperty(recipeList.items[i], "match"))]]
             Kept(pair) == NumGreater(pair.m, Frac(0, 1))
         IN  Returns(Originals(sortByMatch(SelectSeq(pairs, Kept))))

\* lib/sortRecipes filterAndSortRecipeScores, called with an array
filterAndSortRecipeScores(list) ==
    LET pairs == [i \in 1..Len(list) |->
                     [original |-> list[i],
                      m |-> normalizeMatchValue(coverageScoreOf(list[i]))]]
        Kept(pair) == NumGreater(pair.m, Frac(0, 1))
    IN  Originals(sortByMatch(SelectSeq(pairs, Kept)))

\* utils/sortRecipes parseMatchValue (the one that takes an unknown): what
\* it makes of numericValue
parseMatchValueUnknownOfNumber(numericValue) ==
    IF isNaN(numericValue) \/ ~isFinite(numericValue) THEN Frac(0, 1)
    ELSE IF NumGreater(numericValue, Frac(0, 1))
            /\ NumLessEq(numericValue, Frac(1, 1))
         THEN FracMul(numericValue, Frac(100, 1))
    ELSE numericValue

\* utils/sortRecipes parseMatchValue (the one that takes an unknown)
parseMatchValueUnknown(match) ==
    IF match.type \in {"null", "undefined"} THEN Frac(0, 1)
    ELSE IF match.type = "number"
         THEN parseMatchValueUnknownOfNumber(match.num)
    ELSE IF match.type = "string"
         THEN parseMatchValueUnknownOfNumber(
                  parseFloat(trim(removeTrailingPercent(match.str))))
    ELSE Frac(0, 1)

\* utils/sortRecipes getMatchFromRecipe: 'match' first, then 'coverageScore',
\* else 0
getMatchFromRecipe(recipe) ==
    IF ReadProperty(recipe, "match") = JsUndefined
       /\ ReadProperty(recipe, "coverageScore") = JsUndefined
    THEN Frac(0, 1)
    ELSE parseMatchValueUnknown(
             IF ReadProperty(recipe, "match") # JsUndefined
             THEN ReadProperty(recipe, "match")
             ELSE ReadProperty(recipe, "coverageScore"))

\* utils/sortRecipes filterAndSortRecipes (the one without a matchKey)
filterAndSortRecipesByGetMatch(recipeList) ==
    IF IsFalsy(recipeList) \/ recipeList.type # "array" THEN Returns(<<>>)
    ELSE LET pairs == [i \in 1..Len(recipeList.items) |->
                 [original |-> recipeList.items[i],
                  m |-> getMatchFromRecipe(recipeList.items[i])]]
             Kept(pair) == NumGreater(pair.m, Frac(0, 1))
         IN  Returns(Originals(sortByMatch(SelectSeq(pairs, Kept))))

\* What a call leaves of its argument, and whether the array it returns is
\* the argument array itself.
filterAndSortRecipesEffectSortsArgument(recipeList) ==
    IF recipeList.type # "array"
    THEN [arg |-> recipeList, returnedArg |-> FALSE]
    ELSE LET pairs == [i \in 1..Len(recipeList.items) |->
                 [original |-> recipeList.items[i],
                  m |-> normalizeMatchValue(ReadProperty(recipeList.items[i], "match"))]]
         IN  [arg |-> ArrayArg(Originals(sortByMatch(pairs))),
              returnedArg |-> FALSE]

\* lib/sortRecipes filterAndSortRecipes: [...recipes] is a new array, map and
\* filter make new arrays, sort works in place on the array filter made
filterAndSortRecipesEffect(recipeList) ==
    [arg |-> recipeList, returnedArg |-> FALSE]

\* lib/sortRecipes filterAndSortRecipeScores: the same chain
filterAndSortRecipeScoresEffect(recipeList) ==
    [arg |-> recipeList, returnedArg |-> FALSE]

\* utils/sortRecipes filterAndSortRecipes (the one without a matchKey):
\* recipes.filter makes a new array, which is sorted in place and returned
filterAndSortRecipesByGetMatchEffect(recipeList) ==
    [arg |-> recipeList, returnedArg |-> FALSE]


----------------------------------------------------------------------------
(* generateRecipes *)

ListsUpTo(S, n) == UNION {[1..k -> S] : k \in 0..n}

MatchIdle == [called |-> FALSE, fwd |-> FALSE, rev |-> FALSE]

MetricsIdle ==
    [exactCalled |-> FALSE, exactMatches |-> 0,
     rateCalled |-> FALSE, matchRate |-> Frac(0, 1),
     coverageCalled |-> FALSE, coverageScore |-> Frac(0, 1)]

\* The local catalog: "A" with ingredients "a b", "b", "a b" and
\* "b" with ingredients "A", "ab"
MOCK_RECIPES ==
    << [id |-> "1", name |-> <<"A">>,
        ingredients |-> << <<"a", " ", "b">>, <<"b">>, <<"a", " ", "b">> >>],
       [id |-> "2", name |-> <<"b">>,
        ingredients |-> << <<"A">>, <<"a", "b">> >>] >>

\* What a successful Spoonacular search may resolve with: here a recipe
\* named as a catalog recipe, its one ingredient "a  b" with two blanks
SpoonacularResponses ==
    { <<>>,
      << [id |-> "101", name |-> <<"A">>,
          ingredients |-> << <<"a", " ", " ", "b">> >>] >> }

\* What the TheMealDB search may resolve with: here a meal without
\* ingredients that has the name of a catalog recipe
TheMealDBResponses ==
    { <<>>,
      << [id |-> "themealdb-7", name |-> <<"a">>, ingredients |-> <<>>] >> }

RecipeIds == {"1", "2", "101", "themealdb-7"}

\* The cosine of the user's vector and each recipe's vector, in thousandths,
\* when the two are not the same vector
CosineTables ==
    { [id \in RecipeIds |->
          IF id = "1" THEN 800 ELSE IF id = "2" THEN -300
          ELSE IF id = "101" THEN 500 ELSE 0],
      [id \in RecipeIds |->
          IF id = "101" THEN 1000 ELSE IF id = "themealdb-7" THEN -1000
          ELSE 200] }

\* The ingredient strings the user's list is drawn from: "a", " ", "a b"
SelectedPool == { <<"a">>, <<" ">>, <<"a", " ", "b">> }

\* Map.prototype.set(recipe.id, recipe) on a map kept in insertion order
MapSet(map, recipe) ==
    IF \E i \in 1..Len(map) : map[i].id = recipe.id
    THEN [i \in 1..Len(map) |->
             IF map[i].id = recipe.id THEN recipe ELSE map[i]]
    ELSE Append(map, recipe)

RECURSIVE MapSetAll(_, _)
MapSetAll(map, list) ==
    IF list = <<>> THEN map
    ELSE MapSetAll(MapSet(map, Head(list)), Tail(list))

\* validateIngredients of the Spoonacular client throws
HasBlank(list) == \E i \in 1..Len(list) : trim(list[i]) = <<>>

\* recipes = [...apiRecipes, ...mockRecipesToAdd]
Candidates(apiRecipes) ==
    LET apiRecipeNames ==
            {toLowerCase(apiRecipes[i].name) : i \in 1..Len(apiRecipes)}
        NotInApi(mockRecipe) == toLowerCase(mockRecipe.name) \notin apiRecipeNames
    IN  apiRecipes \o SelectSeq(MOCK_RECIPES, NotInApi)

\* A scoring task: settledAt is its place in the order of completion
NoTask ==
    [st |-> "none", embedding |-> NoEmbeddingCall, score |-> NoScore,
     settledAt |-> 0]

\* The number of scoring tasks that have completed
SettledTasks(taskList) ==
    Cardinality({i \in 1..Len(taskList) : taskList[i].st # "awaiting"})

PageIdle == [loaded |-> FALSE, results |-> <<>>]

\* No call made yet: the argument array is as it was given
NoSortOut(mode, arg) ==
    [mode |-> mode,
     normalizeCalled |-> FALSE, normalized |-> Frac(0, 1),
     libCalled |-> FALSE, lib |-> Returns(<<>>),
     utilsCalled |-> FALSE, utils |-> Returns(<<>>),
     byGetMatchCalled |-> FALSE, byGetMatch |-> Returns(<<>>),
     scoresCalled |-> FALSE, scores |-> <<>>,
     argAfter |-> arg, returnedArg |-> FALSE,
     againCalled |-> FALSE, again |-> Returns(<<>>)]

\* No addIngredient call made yet
NoIngredient == [name |-> <<>>, slug |-> <<>>, isCustom |-> FALSE]

NoAddOut ==
    [calls |-> 0, name |-> <<>>, result |-> NoIngredient, before |-> <<>>]

\* const customIngredients = new Map(): empty when the module is loaded
StoreIdle ==
    /\ customIngredients = <<>>
    /\ addOut = NoAddOut
    /\ allOut = [called |-> FALSE, list |-> <<>>]

SortIdle ==
    /\ matchValue = JsUndefined
    /\ recipesArg = OtherArg("undefined")
    /\ sortOut = NoSortOut("idle", OtherArg("undefined"))

ActionIdle ==
    /\ openaiKey = FALSE
    /\ spoonacularKey = FALSE
    /\ cosineTable = [id \in RecipeIds |-> 0]
    /\ selectedIngredients = <<>>
    /\ pc = "idle"
    /\ userEmbedding = NoEmbeddingCall
    /\ recipeMap = <<>>
    /\ recipes = <<>>
    /\ tasks = <<>>
    /\ returned = <<>>
    /\ page = PageIdle

Init ==
    /\ openaiKey \in BOOLEAN
    /\ spoonacularKey \in BOOLEAN
    /\ cosineTable \in CosineTables
    /\ selectedIngredients \in ListsUpTo(SelectedPool, MaxSelected)
    /\ pc = "called"
    /\ userEmbedding = NoEmbeddingCall
    /\ recipeMap = <<>>
    /\ recipes = <<>>
    /\ tasks = <<>>
    /\ returned = <<>>
    /\ page = PageIdle
    /\ userIngredient = <<>>
    /\ recipeIngredient = <<>>
    /\ matchOut = MatchIdle
    /\ userIngredients = <<>>
    /\ recipeIngredients = <<>>
    /\ metricsOut = MetricsIdle
    /\ SortIdle
    /\ StoreIdle

\* generateRecipes up to its first await: the empty-list check, then the call
\* of generateEmbedding for the user's ingredients
GenerateRecipesCalled ==
    /\ pc = "called"
    /\ IF Len(selectedIngredients) = 0
       THEN pc' = "returned" /\ returned' = <<>>
       ELSE pc' = "awaitUserEmbedding" /\ UNCHANGED returned
    /\ UNCHANGED <<userEmbedding, recipeMap, recipes, tasks>>
    /\ UNCHANGED <<matchVars, metricVars, envVars, pageVars, sortVars, storeVars>>

\* await generateEmbedding(userIngredientsText) settles; the Spoonacular
\* search is called when a key is configured, the TheMealDB search otherwise
UserEmbeddingSettles ==
    /\ pc = "awaitUserEmbedding"
    /\ \E outcome \in CallOutcomes :
          LET res == generateEmbedding(join(selectedIngredients),
                                       openaiKey, outcome)
          IN  /\ userEmbedding' = res
              /\ pc' = IF res.rejected THEN "rejected"
                       ELSE IF spoonacularKey THEN "awaitSpoonacular"
                       ELSE "awaitTheMealDB"
    /\ UNCHANGED <<recipeMap, recipes, tasks, returned>>
    /\ UNCHANGED <<matchVars, metricVars, envVars, pageVars, sortVars, storeVars>>

\* The error of the Spoonacular search is not caught
SpoonacularSettlesUncaught ==
    /\ pc = "awaitSpoonacular"
    /\ \/ /\ ~HasBlank(selectedIngredients)
          /\ \E response \in SpoonacularResponses :
                recipeMap' = MapSetAll(recipeMap, response)
          /\ pc' = "awaitTheMealDB"
       \/ /\ recipeMap' = recipeMap
          /\ pc' = "rejected"
    /\ UNCHANGED <<userEmbedding, recipes, tasks, returned>>
    /\ UNCHANGED <<matchVars, metricVars, envVars, pageVars, sortVars, storeVars>>

\* await spoonacularSearchRecipesByIngredients(...) settles: its recipes are
\* put in the map, or its error is caught and logged
SpoonacularSettles ==
    /\ pc = "awaitSpoonacular"
    /\ \/ /\ ~HasBlank(selectedIngredients)
          /\ \E response \in SpoonacularResponses :
                recipeMap' = MapSetAll(recipeMap, response)
       \/ recipeMap' = recipeMap
    /\ pc' = "awaitTheMealDB"
    /\ UNCHANGED <<userEmbedding, recipes, tasks, returned>>
    /\ UNCHANGED <<matchVars, metricVars, envVars, pageVars, sortVars, storeVars>>

\* await themealdbSearchMealsByIngredients(...) settles (it catches its own
\* errors); the candidates are assembled and scoreRecipes starts one task per
\* candidate, each calling generateEmbedding
TheMealDBSettles ==
    /\ pc = "awaitTheMealDB"
    /\ \E response \in TheMealDBResponses :
          LET map == MapSetAll(recipeMap, response)
              all == Candidates(map)
          IN  /\ recipeMap' = map
              /\ recipes' = all
              /\ tasks' = [i \in 1..Len(all) |->
                              [NoTask EXCEPT !.st = "awaiting"]]
    /\ pc' = "scoring"
    /\ UNCHANGED <<userEmbedding, returned>>
    /\ UNCHANGED <<matchVars, metricVars, envVars, pageVars, sortVars, storeVars>>

\* The embedding call of task i settles and the rest of the task runs
TaskSettles(i) ==
    /\ pc \in {"scoring", "rejected"}
    /\ tasks[i].st = "awaiting"
    /\ \E outcome \in CallOutcomes :
          LET emb == generateEmbedding(join(recipes[i].ingredients),
                                       openaiKey, outcome)
              res == ScoreRecipe(recipes[i], selectedIngredients,
                                 userEmbedding.value, emb.value,
                                 cosineTable[recipes[i].id])
              at == SettledTasks(tasks) + 1
          IN  tasks' = [tasks EXCEPT ![i] =
                  IF emb.rejected \/ res.threw
                  THEN [st |-> "rejected", embedding |-> emb, score |-> NoScore,
                        settledAt |-> at]
                  ELSE [st |-> "fulfilled", embedding |-> emb,
                        score |-> res.score, settledAt |-> at]]
    /\ UNCHANGED <<pc, userEmbedding, recipeMap, recipes, returned>>
    /\ UNCHANGED <<matchVars, metricVars, envVars, pageVars, sortVars, storeVars>>

ScoringFulfilsDropsZeroMatch ==
    /\ pc = "scoring"
    /\ \A i \in 1..Len(tasks) : tasks[i].st = "fulfilled"
    /\ LET Matching(sc) == FracLess(Frac(0, 1), sc.ingredientMatchRate)
       IN  returned' = sortByCombinedScore(
               SelectSeq([i \in 1..Len(tasks) |-> tasks[i].score], Matching))
    /\ pc' = "returned"
    /\ UNCHANGED <<userEmbedding, recipeMap, recipes, tasks>>
    /\ UNCHANGED <<matchVars, metricVars, envVars, pageVars, sortVars, storeVars>>

\* The scores collected in the order the tasks completed
RECURSIVE InCompletionOrder(_, _)
InCompletionOrder(taskList, at) ==
    IF at > Len(taskList) THEN <<>>
    ELSE LET i == CHOOSE k \in 1..Len(taskList) : taskList[k].settledAt = at
         IN  <<taskList[i].score>> \o InCompletionOrder(taskList, at + 1)

ScoringFulfilsInCompletionOrder ==
    /\ pc = "scoring"
    /\ \A i \in 1..Len(tasks) : tasks[i].st = "fulfilled"
    /\ returned' = sortByCombinedScore(InCompletionOrder(tasks, 1))
    /\ pc' = "returned"
    /\ UNCHANGED <<userEmbedding, recipeMap, recipes, tasks>>
    /\ UNCHANGED <<matchVars, metricVars, envVars, pageVars, sortVars, storeVars>>

\* Promise.all fulfils with the scores in the order of the tasks, whatever
\* the order they completed in: the scores are sorted and returned
ScoringFulfils ==
    /\ pc = "scoring"
    /\ \A i \in 1..Len(tasks) : tasks[i].st = "fulfilled"
    /\ returned' = sortByCombinedScore([i \in 1..Len(tasks) |-> tasks[i].score])
    /\ pc' = "returned"
    /\ UNCHANGED <<userEmbedding, recipeMap, recipes, tasks>>
    /\ UNCHANGED <<matchVars, metricVars, envVars, pageVars, sortVars, storeVars>>

\* Promise.all rejects with the first task that throws: the catch block
\* throws "Failed to generate recipe recommendations"
ScoringRejects ==
    /\ pc = "scoring"
    /\ \E i \in 1..Len(tasks) : tasks[i].st = "rejected"
    /\ pc' = "rejected"
    /\ UNCHANGED <<userEmbedding, recipeMap, recipes, tasks, returned>>
    /\ UNCHANGED <<matchVars, metricVars, envVars, pageVars, sortVars, storeVars>>

\* The results page loads: it parses the stored list and shows what
\* filterAndSortRecipeScores makes of it
ResultsPageLoads ==
    /\ pc = "returned"
    /\ ~page.loaded
    /\ page' = [loaded |-> TRUE, results |-> filterAndSortRecipeScores(returned)]
    /\ UNCHANGED <<matchVars, metricVars, envVars, callVars, sortVars, storeVars>>

Next ==
    \/ GenerateRecipesCalled
    \/ UserEmbeddingSettles
    \/ SpoonacularSettles
    \/ TheMealDBSettles
    \/ \E i \in 1..Len(tasks) : TaskSettles(i)
    \/ ScoringFulfils
    \/ ScoringRejects
    \/ ResultsPageLoads

Spec == Init /\ [][Next]_vars

----------------------------------------------------------------------------
(* The metric calculators on their own: every pair of ingredient lists     *)
(* within the bounds.                                                      *)

\* The ingredient strings the lists are drawn from:
\* "a", "b", "a b", " B " and "ab"
IngredientPool ==
    { <<"a">>, <<"b">>, <<"a", " ", "b">>, <<" ", "A", " ">>, <<"a", "b">> }

MetricsInit ==
    /\ userIngredients \in ListsUpTo(IngredientPool, MaxListLen)
    /\ recipeIngredients \in ListsUpTo(IngredientPool, MaxListLen)
    /\ metricsOut = MetricsIdle
    /\ userIngredient = <<>>
    /\ recipeIngredient = <<>>
    /\ matchOut = MatchIdle
    /\ ActionIdle
    /\ SortIdle
    /\ StoreIdle

CallCalculateExactMatches ==
    /\ ~metricsOut.exactCalled
    /\ metricsOut' =
          [metricsOut EXCEPT
              !.exactCalled = TRUE,
              !.exactMatches =
                  calculateExactMatches(userIngredients, recipeIngredients)]
    /\ UNCHANGED <<userIngredients, recipeIngredients, matchVars, envVars, callVars,
                   pageVars, sortVars, storeVars>>

CallCalculateIngredientMatchRate ==
    /\ ~metricsOut.rateCalled
    /\ metricsOut' =
          [metricsOut EXCEPT
              !.rateCalled = TRUE,
              !.matchRate =
                  calculateIngredientMatchRate(userIngredients, recipeIngredients)]
    /\ UNCHANGED <<userIngredients, recipeIngredients, matchVars, envVars, callVars,
                   pageVars, sortVars, storeVars>>

CallCalculateCoverageScore ==
    /\ ~metricsOut.coverageCalled
    /\ metricsOut' =
          [metricsOut EXCEPT
              !.coverageCalled = TRUE,
              !.coverageScore =
                  calculateCoverageScore(userIngredients, recipeIngredients)]
    /\ UNCHANGED <<userIngredients, recipeIngredients, matchVars, envVars, callVars,
                   pageVars, sortVars, storeVars>>

MetricsNext ==
    \/ CallCalculateExactMatches
    \/ CallCalculateIngredientMatchRate
    \/ CallCalculateCoverageScore

SpecMetrics == MetricsInit /\ [][MetricsNext]_vars

----------------------------------------------------------------------------
(* The matcher on its own: every pair of strings within the bounds, called *)
(* in both argument orders.                                                *)

MatchInit ==
    /\ userIngredient \in StringsUpTo(MaxUserChars)
    /\ recipeIngredient \in StringsUpTo(MaxRecipeChars)
    /\ matchOut = MatchIdle
    /\ userIngredients = <<>>
    /\ recipeIngredients = <<>>
    /\ metricsOut = MetricsIdle
    /\ ActionIdle
    /\ SortIdle
    /\ StoreIdle

CallIngredientMatches ==
    /\ ~matchOut.called
    /\ matchOut' = [called |-> TRUE,
                    fwd |-> ingredientMatches(userIngredient, recipeIngredient),
                    rev |-> ingredientMatches(recipeIngredient, userIngredient)]
    /\ UNCHANGED <<userIngredient, recipeIngredient, metricVars, envVars, callVars,
                   pageVars, sortVars, storeVars>>

MatchNext == CallIngredientMatches

SpecMatch == MatchInit /\ [][MatchNext]_vars

----------------------------------------------------------------------------
(* The normalizer and the sorter on their own: every match value and      *)
(* every argument of filterAndSortRecipes within the bounds.              *)

\* The characters the match strings are drawn from
MatchChars == {"0", "1", "5", ".", "%", " ", "-"}

\* "85", "85%", " 85% ", "85 %", "0.85", "0.85%", "50.5", "150", "-10",
\* "abc", "Infinity", "-Infinity", "1e2"
NamedMatchStrings ==
    { <<"8", "5">>, <<"8", "5", "%">>, <<" ", "8", "5", "%", " ">>,
      <<"8", "5", " ", "%">>, <<"0", ".", "8", "5">>,
      <<"0", ".", "8", "5", "%">>, <<"5", "0", ".", "5">>,
      <<"1", "5", "0">>, <<"-", "1", "0">>, <<"a", "b", "c">>,
      InfinityLiteral, <<"-">> \o InfinityLiteral, <<"1", "e", "2">> }

MatchStrings ==
    NamedMatchStrings \cup UNION {[1..k -> MatchChars] : k \in 0..MaxMatchChars}

\* NaN, Infinity, -Infinity, 0, 1, 85, 100, 150, -5, -10, 0.85, 0.5, 50.5,
\* 1.01, 0.001
MatchNumbers ==
    { NaN, Infinity, NegInfinity, Frac(0, 1), Frac(1, 1), Frac(85, 1),
      Frac(100, 1), Frac(150, 1), Frac(-5, 1), Frac(-10, 1), Frac(85, 100),
      Frac(1, 2), Frac(101, 2), Frac(101, 100), Frac(1, 1000) }

MatchValues ==
    {JsNull, JsUndefined}
    \cup {JsNumber(x) : x \in MatchNumbers}
    \cup {JsString(s) : s \in MatchStrings}

\* The properties an item may have besides its name
NoItem ==
    [name |-> "", match |-> JsUndefined, coverageScore |-> JsUndefined,
     matchPercentage |-> JsUndefined, score |-> JsUndefined]

\* The recipes the lists are drawn from: a name and a match in one of the
\* formats, or a value under another property
ItemPool ==
    { [NoItem EXCEPT !.name = "A", !.match = JsNumber(Frac(85, 1))],
      [NoItem EXCEPT !.name = "B", !.match = JsString(<<"8", "5", "%">>)],
      [NoItem EXCEPT !.name = "C", !.match = JsNumber(Frac(85, 100))],
      [NoItem EXCEPT !.name = "D", !.match = JsNumber(Frac(0, 1))],
      [NoItem EXCEPT !.name = "E", !.match = JsNumber(Frac(-10, 1))],
      [NoItem EXCEPT !.name = "F", !.match = JsString(<<"1", "5", "0">>)],
      [NoItem EXCEPT !.name = "I", !.match = JsString(InfinityLiteral)],
      [NoItem EXCEPT !.name = "K", !.coverageScore = JsNumber(Frac(85, 100))],
      [NoItem EXCEPT !.name = "L",
                     !.matchPercentage = JsString(<<"4", "0", "%">>)],
      [NoItem EXCEPT !.name = "M", !.score = JsNumber(Frac(70, 1))],
      [NoItem EXCEPT !.name = "N", !.match = JsNumber(Frac(50, 1)),
                     !.coverageScore = JsNumber(Frac(9, 10))] }

\* null, undefined, a non-zero number, a plain object, and arrays
RecipesArgs ==
    {OtherArg(t) : t \in {"null", "undefined", "number", "object"}}
    \cup {ArrayArg(l) : l \in ListsUpTo(ItemPool, MaxRecipes)}

SortInit ==
    /\ \/ /\ matchValue \in MatchValues
          /\ recipesArg = OtherArg("undefined")
          /\ sortOut = NoSortOut("value", recipesArg)
       \/ /\ matchValue = JsUndefined
          /\ recipesArg \in RecipesArgs
          /\ sortOut = NoSortOut("list", recipesArg)
    /\ userIngredient = <<>>
    /\ recipeIngredient = <<>>
    /\ matchOut = MatchIdle
    /\ userIngredients = <<>>
    /\ recipeIngredients = <<>>
    /\ metricsOut = MetricsIdle
    /\ ActionIdle
    /\ StoreIdle

CallNormalizeMatchValue ==
    /\ sortOut.mode = "value"
    /\ ~sortOut.normalizeCalled
    /\ sortOut' = [sortOut EXCEPT !.normalizeCalled = TRUE,
                                  !.normalized = normalizeMatchValue(matchValue)]
    /\ UNCHANGED <<matchValue, recipesArg, matchVars, metricVars, envVars,
                   callVars, pageVars, storeVars>>

\* One of the sorters is called on the argument, once
NoListCall ==
    /\ sortOut.mode = "list"
    /\ ~sortOut.libCalled
    /\ ~sortOut.utilsCalled
    /\ ~sortOut.byGetMatchCalled
    /\ ~sortOut.scoresCalled

CallFilterAndSortRecipes ==
    /\ NoListCall
    /\ LET effect == filterAndSortRecipesEffect(recipesArg)
       IN  sortOut' = [sortOut EXCEPT !.libCalled = TRUE,
                                      !.lib = filterAndSortRecipes(recipesArg),
                                      !.argAfter = effect.arg,
                                      !.returnedArg = effect.returnedArg]
    /\ UNCHANGED <<matchValue, recipesArg, matchVars, metricVars, envVars,
                   callVars, pageVars, storeVars>>

CallUtilsFilterAndSortRecipes ==
    /\ NoListCall
    /\ sortOut' = [sortOut EXCEPT !.utilsCalled = TRUE,
                                  !.utils = utilsFilterAndSortRecipes(recipesArg)]
    /\ UNCHANGED <<matchValue, recipesArg, matchVars, metricVars, envVars,
                   callVars, pageVars, storeVars>>

CallFilterAndSortRecipesByGetMatch ==
    /\ NoListCall
    /\ LET effect == filterAndSortRecipesByGetMatchEffect(recipesArg)
       IN  sortOut' = [sortOut EXCEPT
                          !.byGetMatchCalled = TRUE,
                          !.byGetMatch = filterAndSortRecipesByGetMatch(recipesArg),
                          !.argAfter = effect.arg,
                          !.returnedArg = effect.returnedArg]
    /\ UNCHANGED <<matchValue, recipesArg, matchVars, metricVars, envVars,
                   callVars, pageVars, storeVars>>

\* filterAndSortRecipeScores is called with arrays only
CallFilterAndSortRecipeScores ==
    /\ NoListCall
    /\ recipesArg.type = "array"
    /\ LET effect == filterAndSortRecipeScoresEffect(recipesArg)
       IN  sortOut' = [sortOut EXCEPT
                          !.scoresCalled = TRUE,
                          !.scores = filterAndSortRecipeScores(recipesArg.items),
                          !.argAfter = effect.arg,
                          !.returnedArg = effect.returnedArg]
    /\ UNCHANGED <<matchValue, recipesArg, matchVars, metricVars, envVars,
                   callVars, pageVars, storeVars>>

\* filterAndSortRecipes of lib/sortRecipes is called on what it returned
CallFilterAndSortRecipesAgain ==
    /\ sortOut.libCalled
    /\ ~sortOut.lib.threw
    /\ ~sortOut.againCalled
    /\ sortOut' = [sortOut EXCEPT
                      !.againCalled = TRUE,
                      !.again = filterAndSortRecipes(ArrayArg(sortOut.lib.value))]
    /\ UNCHANGED <<matchValue, recipesArg, matchVars, metricVars, envVars,
                   callVars, pageVars, storeVars>>

\* filterAndSortRecipes of utils/sortRecipes is called on what it returned
CallFilterAndSortRecipesByGetMatchAgain ==
    /\ sortOut.byGetMatchCalled
    /\ ~sortOut.againCalled
    /\ sortOut' = [sortOut EXCEPT
                      !.againCalled = TRUE,
                      !.again = filterAndSortRecipesByGetMatch(
                                    ArrayArg(sortOut.byGetMatch.value))]
    /\ UNCHANGED <<matchValue, recipesArg, matchVars, metricVars, envVars,
                   callVars, pageVars, storeVars>>

SortNext ==
    \/ CallNormalizeMatchValue
    \/ CallFilterAndSortRecipes
    \/ CallUtilsFilterAndSortRecipes
    \/ CallFilterAndSortRecipesByGetMatch
    \/ CallFilterAndSortRecipeScores
    \/ CallFilterAndSortRecipesAgain
    \/ CallFilterAndSortRecipesByGetMatchAgain

SpecSort == SortInit /\ [][SortNext]_vars

----------------------------------------------------------------------------
(* The ingredient store: addIngredient and getAllIngredients.  Both are    *)
(* async functions without an await, so each call runs to its end before   *)
(* another request's call starts; concurrent requests are calls in any     *)
(* order.                                                                  *)

\* The canonical names: "a b" and "b"
CANONICAL_INGREDIENTS == << <<"a", " ", "b">>, <<"b">> >>

\* Map.prototype.has, get and set on a map of ingredients kept in insertion
\* order and keyed by slug
SlugMapHas(map, slug) == \E i \in 1..Len(map) : map[i].slug = slug

SlugMapGet(map, slug) ==
    map[CHOOSE i \in 1..Len(map) : map[i].slug = slug]

SlugMapSet(map, ingredient) ==
    IF SlugMapHas(map, ingredient.slug)
    THEN [i \in 1..Len(map) |->
             IF map[i].slug = ingredient.slug THEN ingredient ELSE map[i]]
    ELSE Append(map, ingredient)

RECURSIVE CanonicalMapFrom(_, _)
CanonicalMapFrom(names, map) ==
    IF names = <<>> THEN map
    ELSE CanonicalMapFrom(Tail(names),
             SlugMapSet(map, [name |-> Head(names),
                              slug |-> generateIngredientSlug(Head(names)),
                              isCustom |-> FALSE]))

canonicalIngredientsMap == CanonicalMapFrom(CANONICAL_INGREDIENTS, <<>>)

\* customIngredients.forEach: set when the combined map has not the slug
RECURSIVE AddMissing(_, _)
AddMissing(combined, custom) ==
    IF custom = <<>> THEN combined
    ELSE AddMissing(IF SlugMapHas(combined, Head(custom).slug) THEN combined
                    ELSE SlugMapSet(combined, Head(custom)),
                    Tail(custom))

getAllIngredients(custom) == AddMissing(canonicalIngredientsMap, custom)

\* addIngredient without the look at the custom ingredients
addIngredientNoCustomCheck(name, custom) ==
    LET normalizedName == normalizeIngredient(name)
        slug == generateIngredientSlug(normalizedName)
        newIngredient == [name |-> normalizedName, slug |-> slug,
                          isCustom |-> TRUE]
    IN  IF SlugMapHas(canonicalIngredientsMap, slug)
        THEN [result |-> SlugMapGet(canonicalIngredientsMap, slug),
              custom |-> custom]
        ELSE [result |-> newIngredient,
              custom |-> SlugMapSet(custom, newIngredient)]

\* addIngredient: what it returns and the custom ingredients afterwards
addIngredient(name, custom) ==
    LET normalizedName == normalizeIngredient(name)
        slug == generateIngredientSlug(normalizedName)
        newIngredient == [name |-> normalizedName, slug |-> slug,
                          isCustom |-> TRUE]
    IN  IF SlugMapHas(canonicalIngredientsMap, slug)
        THEN [result |-> SlugMapGet(canonicalIngredientsMap, slug),
              custom |-> custom]
        ELSE IF SlugMapHas(custom, slug)
        THEN [result |-> SlugMapGet(custom, slug), custom |-> custom]
        ELSE [result |-> newIngredient,
              custom |-> SlugMapSet(custom, newIngredient)]

\* The names the requests ask to add: "a b", "A  B", "a-b", "b", "a", " A ",
\* "a.", "ab" and "."
NamePool ==
    { <<"a", " ", "b">>, <<"A", " ", " ", "b">>, <<"a", "-", "b">>, <<"b">>,
      <<"a">>, <<" ", "A", " ">>, <<"a", ".">>, <<"a", "b">>, <<".">> }

IngredientsInit ==
    /\ StoreIdle
    /\ userIngredient = <<>>
    /\ recipeIngredient = <<>>
    /\ matchOut = MatchIdle
    /\ userIngredients = <<>>
    /\ recipeIngredients = <<>>
    /\ metricsOut = MetricsIdle
    /\ ActionIdle
    /\ SortIdle

\* A request calls addIngredient(name)
CallAddIngredient ==
    /\ addOut.calls < MaxAdds
    /\ \E name \in NamePool :
          LET res == addIngredient(name, customIngredients)
          IN  /\ customIngredients' = res.custom
              /\ addOut' = [calls |-> addOut.calls + 1, name |-> name,
                            result |-> res.result,
                            before |-> customIngredients]
    /\ UNCHANGED <<allOut, matchVars, metricVars, envVars, callVars, pageVars,
                   sortVars>>

\* A request calls getAllIngredients()
CallGetAllIngredients ==
    /\ allOut' = [called |-> TRUE, list |-> getAllIngredients(customIngredients)]
    /\ UNCHANGED <<customIngredients, addOut, matchVars, metricVars, envVars,
                   callVars, pageVars, sortVars>>

IngredientsNext ==
    \/ CallAddIngredient
    \/ CallGetAllIngredients

SpecIngredients == IngredientsInit /\ [][IngredientsNext]_vars

----------------------------------------------------------------------------
(* Claims about ingredientMatches (specification SpecMatch) *)

\* A letter, digit or underscore stands on exactly one side of the gap after
\* the first k characters of s.
GapIsWordBoundary(s, k) ==
    LET wordBefore == k >= 1 /\ k <= Len(s) /\ s[k] \in {"a", "b"}
        wordAfter == k + 1 >= 1 /\ k + 1 <= Len(s) /\ s[k + 1] \in {"a", "b"}
    IN  wordBefore # wordAfter

\* p occurs in s after the first i characters
OccursAt(p, s, i) ==
    i + Len(p) <= Len(s) /\ \A j \in 1..Len(p) : s[i + j] = p[j]

\* p occurs inside s as a span delimited by word boundaries
OccursAsBoundedSpan(p, s) ==
    \E i \in 0..Len(s) :
        /\ OccursAt(p, s, i)
        /\ GapIsWordBoundary(s, i)
        /\ GapIsWordBoundary(s, i + Len(p))

\* p is a word that occurs in s, and only as part of a longer word of s
\* ("rice" inside "licorice")
OccursOnlyInsideLongerWord(p, s) ==
    /\ p # <<>>
    /\ \A j \in 1..Len(p) : p[j] \in {"a", "b"}
    /\ \E i \in 0..Len(s) : OccursAt(p, s, i)
    /\ \A i \in 0..Len(s) :
          OccursAt(p, s, i) =>
              \/ (i >= 1 /\ s[i] \in {"a", "b"})
              \/ (i + Len(p) + 1 <= Len(s) /\ s[i + Len(p) + 1] \in {"a", "b"})

\* C2 (as claimed): ingredientMatches(u, r) is false whenever u or r is empty
\* or whitespace-only after lowercasing and trimming.
C2_EmptyNeverMatches ==
    matchOut.called =>
        ((normalizeIngredient(userIngredient) = <<>>
          \/ normalizeIngredient(recipeIngredient) = <<>>)
            => ~matchOut.fwd)

\* C6: ingredientMatches(u, r) is true exactly when the lowercased, trimmed
\* strings are equal or one occurs inside the other as a span delimited by
\* word boundaries; a word that occurs in the other string only as part of a
\* longer word does not match.
C6_MatchesIffEqualOrBoundedSpan ==
    matchOut.called =>
        LET a == normalizeIngredient(userIngredient)
            b == normalizeIngredient(recipeIngredient)
        IN  /\ matchOut.fwd <=> (\/ a = b
                                 \/ OccursAsBoundedSpan(a, b)
                                 \/ OccursAsBoundedSpan(b, a))
            /\ (OccursOnlyInsideLongerWord(a, b)
                \/ OccursOnlyInsideLongerWord(b, a)) => ~matchOut.fwd

\* C6 witness: a non-empty token matched as a bounded span of a longer string
C6_Witness ==
    /\ matchOut.called
    /\ matchOut.fwd
    /\ normalizeIngredient(userIngredient) # <<>>
    /\ Len(normalizeIngredient(userIngredient))
          < Len(normalizeIngredient(recipeIngredient))

\* C7: ingredientMatches is symmetric in its two arguments.
C7_MatchesSymmetric ==
    matchOut.called => (matchOut.fwd = matchOut.rev)

\* C7 witness: a head noun and a compound phrase match in both orders
C7_Witness ==
    /\ matchOut.called
    /\ userIngredient = <<"a">>
    /\ recipeIngredient = <<"a", " ", "b">>
    /\ matchOut.fwd
    /\ matchOut.rev

----------------------------------------------------------------------------
(* Claims about the metric calculators (specification SpecMetrics) *)

\* The number of words of an ingredient: maximal runs of non-whitespace in the
\* lowercased, trimmed string (the empty string is one empty word).
WordCount(ingredient) ==
    LET n == normalizeIngredient(ingredient)
        starts == {i \in 1..Len(n) : n[i] # " " /\ (i = 1 \/ n[i - 1] = " ")}
    IN  IF n = <<>> THEN 1 ELSE Cardinality(starts)

\* One of the two ingredients is a single word and the other has several
SingleAgainstMulti(x, y) ==
    \/ (WordCount(x) = 1 /\ WordCount(y) > 1)
    \/ (WordCount(x) > 1 /\ WordCount(y) = 1)

\* C8: a single-word ingredient never exact-matches a multi-word ingredient,
\* in either direction, so a recipe ingredient is counted by
\* calculateExactMatches only if some user ingredient is not single-against-
\* multi with it; "a b" against "b" counts 0, "a b" against "a b" counts 1.
C8_SingleNeverExactMatchesMulti ==
    metricsOut.exactCalled =>
        /\ metricsOut.exactMatches <=
              Cardinality({j \in 1..Len(recipeIngredients) :
                  \E i \in 1..Len(userIngredients) :
                      ~SingleAgainstMulti(userIngredients[i],
                                          recipeIngredients[j])})
        /\ (userIngredients = << <<"a", " ", "b">> >>
            /\ recipeIngredients = << <<"b">> >>)
              => metricsOut.exactMatches = 0
        /\ (userIngredients = << <<"a", " ", "b">> >>
            /\ recipeIngredients = << <<"a", " ", "b">> >>)
              => metricsOut.exactMatches = 1

\* C8 witness: a multi-word user ingredient against a recipe holding a single
\* word of it and the ingredient itself: only the latter is counted
C8_Witness ==
    /\ metricsOut.exactCalled
    /\ userIngredients = << <<"a", " ", "b">> >>
    /\ recipeIngredients = << <<"b">>, <<"a", " ", "b">> >>
    /\ metricsOut.exactMatches = 1

\* The user ingredients (positions) that some recipe ingredient matches
MatchedUserPositions ==
    {i \in 1..Len(userIngredients) :
        \E j \in 1..Len(recipeIngredients) :
            ingredientMatches(userIngredients[i], recipeIngredients[j])}

\* C10: calculateIngredientMatchRate is the number of user ingredients matched
\* by at least one recipe ingredient divided by the number of user
\* ingredients; 0 for an empty user list, 1 when every user ingredient is
\* matched (identical lists), 0 when nothing overlaps.
C10_MatchRateIsMatchedFraction ==
    metricsOut.rateCalled =>
        LET rate == metricsOut.matchRate
            matched == Cardinality(MatchedUserPositions)
        IN  /\ rate.den # 0
            /\ Len(userIngredients) = 0 => rate.num = 0
            /\ Len(userIngredients) > 0 =>
                  rate.num * Len(userIngredients) = matched * rate.den
            /\ (Len(userIngredients) > 0
                /\ userIngredients = recipeIngredients) => rate.num = rate.den
            /\ matched = 0 => rate.num = 0

\* C10 witness: two user ingredients of which exactly one is matched
C10_Witness ==
    /\ metricsOut.rateCalled
    /\ Len(userIngredients) = 2
    /\ Cardinality(MatchedUserPositions) = 1
    /\ metricsOut.matchRate.num = 1
    /\ metricsOut.matchRate.den = 2

----------------------------------------------------------------------------
(* Claims about generateRecipes (specification Spec) *)

\* The generateEmbedding calls of the request that have settled
SettledEmbeddingCalls ==
    (IF userEmbedding.settled THEN {userEmbedding} ELSE {})
    \cup {tasks[i].embedding : i \in {j \in 1..Len(tasks) :
                                         tasks[j].embedding.settled}}

\* The RecipeScore records the request has produced
ProducedScores ==
    {tasks[i].score : i \in {j \in 1..Len(tasks) : tasks[j].st = "fulfilled"}}
    \cup {returned[i] : i \in 1..Len(returned)}

\* C1 (as claimed): whichever external embedding calls succeed or fail,
\* generateRecipes never rejects and no scoring task reaches the length-
\* mismatch error of cosineSimilarity.
C1_GenerateRecipesNeverRejects ==
    /\ pc # "rejected"
    /\ \A i \in 1..Len(tasks) : tasks[i].st # "rejected"

\* Every string of the list is empty or whitespace-only (also the empty list)
AllBlank(list) == \A i \in 1..Len(list) : normalizeIngredient(list[i]) = <<>>

\* C3 (as claimed): for an empty list, or a list of only empty or
\* whitespace-only strings, generateRecipes returns the empty list.
C3_BlankListReturnsEmpty ==
    (AllBlank(selectedIngredients) /\ pc = "returned") => returned = <<>>

\* C4 (as claimed): every vector generateEmbedding returns has exactly 384
\* components, whichever path served it.
C4_EveryEmbeddingHas384Components ==
    \A e \in SettledEmbeddingCalls : ~e.rejected => e.value.len = 384

\* C5: generateEmbedding never rejects; without a key, or when the external
\* call rejects, it resolves with the fallback embedding of the same text,
\* the value it returns for that text when no key is configured.
C5_GenerateEmbeddingFallsBack ==
    \A e \in SettledEmbeddingCalls :
        /\ ~e.rejected
        /\ (~openaiKey \/ e.outcome = "rejects") =>
              /\ e.value = generateSimpleEmbedding(e.text)
              /\ e.value.len = EmbeddingDim
              /\ e.value = generateEmbedding(e.text, FALSE, "ok").value

\* C5 witness: a key is configured, the external call of the user embedding
\* rejected, and the call resolved with the fallback embedding
C5_Witness ==
    /\ openaiKey
    /\ userEmbedding.settled
    /\ userEmbedding.outcome = "rejects"
    /\ ~userEmbedding.rejected
    /\ userEmbedding.value.gen = "generateSimpleEmbedding"
    /\ userEmbedding.text = join(selectedIngredients)

\* The number of positions of list that hold x
Occurrences(list, x) == Cardinality({i \in 1..Len(list) : list[i] = x})

Elements(list) == {list[i] : i \in 1..Len(list)}

\* C9: in every RecipeScore, matchedIngredients and missingIngredients
\* partition recipe.ingredients: every ingredient, duplicates included, is in
\* exactly one of the two lists, the lists are disjoint as sets, their union
\* is the recipe's ingredient set, and the lengths add up.
C9_MatchedMissingPartition ==
    \A sc \in ProducedScores :
        LET all == sc.recipe.ingredients
            matched == sc.matchedIngredients
            missing == sc.missingIngredients
        IN  /\ Len(matched) + Len(missing) = Len(all)
            /\ Elements(matched) \cap Elements(missing) = {}
            /\ Elements(matched) \cup Elements(missing) = Elements(all)
            /\ \A x \in Elements(all) :
                  \/ /\ Occurrences(matched, x) = Occurrences(all, x)
                     /\ Occurrences(missing, x) = 0
                  \/ /\ Occurrences(missing, x) = Occurrences(all, x)
                     /\ Occurrences(matched, x) = 0

\* C9 witness: the returned score of catalog recipe "1" ("a b", "b", "a b")
\* for the user list ["a"]: both "a b" matched, "b" missing
C9_Witness ==
    /\ pc = "returned"
    /\ selectedIngredients = << <<"a">> >>
    /\ \E i \in 1..Len(returned) :
          /\ returned[i].recipe.id = "1"
          /\ returned[i].matchedIngredients
                = << <<"a", " ", "b">>, <<"a", " ", "b">> >>
          /\ returned[i].missingIngredients = << <<"b">> >>

----------------------------------------------------------------------------
(* Claims about scoring (specifications SpecMetrics and Spec) *)

\* C11 (as claimed): for a recipe without ingredients the coverage score is
\* the finite number 0 and the exact-match count is 0; no division by zero
\* and no NaN occurs.
C11_EmptyRecipeScoresZero ==
    recipeIngredients = <<>> =>
        /\ metricsOut.coverageCalled =>
              /\ isFinite(metricsOut.coverageScore)
              /\ FracEq(metricsOut.coverageScore, Frac(0, 1))
        /\ metricsOut.exactCalled => metricsOut.exactMatches = 0

\* The weighted sum of the four metrics of a score
WeightedSum(sc, wSimilarity, wMatchRate, wUtilization, wExact) ==
    FracAdd(FracAdd(FracMul(sc.similarityScore, wSimilarity),
                    FracMul(sc.ingredientMatchRate, wMatchRate)),
            FracAdd(FracMul(sc.utilizationScore, wUtilization),
                    FracMul(exactMatchPercentageOf(sc.exactMatches, sc.recipe),
                            wExact)))

C13_CombinedScoreUsesDocumentedWeights ==
    \A sc \in ProducedScores :
        FracEq(sc.combinedScore,
               WeightedSum(sc, Frac(40, 100), Frac(35, 100),
                           Frac(15, 100), Frac(10, 100)))

C15_PositiveMatchesAreShown ==
    page.loaded =>
        LET positive == {i \in 1..Len(returned) :
                            FracLess(Frac(0, 1), returned[i].ingredientMatchRate)}
        IN  /\ \A i \in positive : returned[i] \in Elements(page.results)
            /\ positive # {} => page.results # <<>>

----------------------------------------------------------------------------
(* Claims about the normalizer and the sorter (specification SpecSort) *)

\* t is a decimal numeral from its first to its last character: an optional
\* "-", then digits with an optional fraction, or a fraction alone
IsNumeral(t) ==
    LET p == IF Len(t) >= 1 /\ t[1] = "-" THEN 2 ELSE 1
        intLen == DigitRun(t, p)
        hasDot == p + intLen <= Len(t) /\ t[p + intLen] = "."
        fracLen == IF hasDot THEN DigitRun(t, p + intLen + 1) ELSE 0
    IN  /\ intLen > 0 \/ fracLen > 0
        /\ p + intLen + (IF hasDot THEN 1 + fracLen ELSE 0) = Len(t) + 1

\* The number a decimal numeral denotes
NumeralValue(t) ==
    LET negative == t[1] = "-"
        p == IF negative THEN 2 ELSE 1
        intLen == DigitRun(t, p)
        fracLen == DigitRun(t, p + intLen + 1)
        digits == DigitsValue(t, p, intLen) * Pow10(fracLen)
                  + DigitsValue(t, p + intLen + 1, fracLen)
    IN  Frac(IF negative THEN -digits ELSE digits, Pow10(fracLen))

\* The numeral of a string that writes a number: surrounding whitespace and
\* one percent sign after the numeral set aside
NumeralOf(s) ==
    LET t == trim(s)
    IN  IF Len(t) > 0 /\ t[Len(t)] = "%"
        THEN trim(SubSeq(t, 1, Len(t) - 1))
        ELSE t

\* A value with a numeric meaning: a finite number, or a string that writes
\* a decimal numeral
HasNumericMeaning(value) ==
    \/ value.type = "number" /\ isFinite(value.num)
    \/ value.type = "string" /\ IsNumeral(NumeralOf(value.str))

NumericMeaning(value) ==
    IF value.type = "number" THEN value.num
    ELSE NumeralValue(NumeralOf(value.str))

InUnitInterval(v) == FracLess(Frac(0, 1), v) /\ ~FracLess(Frac(1, 1), v)

\* C16: a value that means the number v (the number itself, or a string
\* that writes it, with or without a percent sign and whitespace) is
\* normalized to what the number v is normalized to; to v * 100 when
\* 0 < v <= 1; and so to 85 for both 85 and 0.85.
C16_SameMeaningSameOutput ==
    (sortOut.normalizeCalled /\ HasNumericMeaning(matchValue)) =>
        LET v == NumericMeaning(matchValue)
        IN  /\ sortOut.normalized = normalizeMatchValue(JsNumber(v))
            /\ InUnitInterval(v) =>
                  FracEq(sortOut.normalized, FracMul(v, Frac(100, 1)))
            /\ (FracEq(v, Frac(85, 1)) \/ FracEq(v, Frac(85, 100))) =>
                  FracEq(sortOut.normalized, Frac(85, 1))

\* C16 witness: " 85% " and "0.85" normalized to 85
C16_Witness ==
    /\ sortOut.normalizeCalled
    /\ matchValue \in {JsString(<<" ", "8", "5", "%", " ">>),
                       JsString(<<"0", ".", "8", "5">>)}
    /\ sortOut.normalized = Frac(85, 1)

\* C17 (as claimed): a value that means a finite number v outside (0, 1] is
\* normalized to v itself, negative v and v above 100 included.
C17_OutsideUnitIntervalUnchanged ==
    (sortOut.normalizeCalled /\ HasNumericMeaning(matchValue)) =>
        LET v == NumericMeaning(matchValue)
        IN  ~InUnitInterval(v) => FracEq(sortOut.normalized, v)

\* A value without numeric meaning: null, undefined, a number that is NaN
\* or infinite, a string that does not parse to a finite number
WithoutNumericMeaning(value) ==
    \/ value.type \in {"null", "undefined"}
    \/ value.type = "number" /\ ~isFinite(value.num)
    \/ value.type = "string"
       /\ ~isFinite(parseFloat(removeTrailingPercent(trim(value.str))))

\* C18 (as claimed): every value without numeric meaning is normalized to 0.
C18_NoNumericMeaningGivesZero ==
    (sortOut.normalizeCalled /\ WithoutNumericMeaning(matchValue)) =>
        sortOut.normalized = Frac(0, 1)

\* C19 (as claimed): for null, undefined, a value that is no array, and the
\* empty array, both filterAndSortRecipes functions return an empty array
\* and do not throw.
C19_NonArrayGivesEmptyArray ==
    (sortOut.mode = "list"
     /\ (recipesArg.type # "array" \/ recipesArg.items = <<>>)) =>
        /\ sortOut.libCalled => sortOut.lib = Returns(<<>>)
        /\ sortOut.utilsCalled => sortOut.utils = Returns(<<>>)

NormalizedMatchOf(item) == normalizeMatchValue(ReadProperty(item, "match"))

\* C20: the list filterAndSortRecipes returns for an array holds each item
\* whose normalized match is > 0 as often as the array does and no other
\* item, no item is followed by one of a greater normalized match, and the
\* items of one normalized match are in the order they have in the array.
C20_KeepsPositiveSortedStable ==
    (sortOut.mode = "list" /\ sortOut.libCalled /\ recipesArg.type = "array") =>
        LET in == recipesArg.items
            out == sortOut.lib.value
            Greater(x, y) == NumGreater(NormalizedMatchOf(x), NormalizedMatchOf(y))
        IN  /\ ~sortOut.lib.threw
            /\ \A x \in Elements(in) \cup Elements(out) :
                  Occurrences(out, x) =
                     IF NumGreater(NormalizedMatchOf(x), Frac(0, 1))
                     THEN Occurrences(in, x) ELSE 0
            /\ \A i, j \in 1..Len(out) : i < j => ~Greater(out[j], out[i])
            /\ \A x \in Elements(out) :
                  LET Same(y) == ~Greater(x, y) /\ ~Greater(y, x)
                  IN  SelectSeq(out, Same) = SelectSeq(in, Same)

\* C20 witness: an array of three all kept, two different items of one
\* normalized match in their order behind the item that came after them
C20_Witness ==
    /\ sortOut.mode = "list" /\ sortOut.libCalled /\ recipesArg.type = "array"
    /\ LET in == recipesArg.items
           out == sortOut.lib.value
       IN  /\ Len(in) = 3
           /\ Len(out) = 3
           /\ out[1] = in[3]
           /\ out[2] = in[1] /\ out[3] = in[2]
           /\ in[1] # in[2]
           /\ NormalizedMatchOf(in[1]) = NormalizedMatchOf(in[2])

C22_Idempotent ==
    sortOut.againCalled =>
        /\ ~sortOut.again.threw
        /\ sortOut.libCalled => sortOut.again.value = sortOut.lib.value
        /\ sortOut.byGetMatchCalled =>
              sortOut.again.value = sortOut.byGetMatch.value

\* C22 witness: a second call on a list the first call reordered, holding
\* two different items of one normalized match
C22_Witness ==
    /\ sortOut.againCalled /\ sortOut.libCalled
    /\ sortOut.lib.value # recipesArg.items
    /\ \E i, j \in 1..Len(sortOut.lib.value) :
          /\ i < j
          /\ sortOut.lib.value[i] # sortOut.lib.value[j]
          /\ NormalizedMatchOf(sortOut.lib.value[i])
                = NormalizedMatchOf(sortOut.lib.value[j])

\* The raw match value of an item by the priority list of field names
RawMatchByPriority(item) ==
    IF item.coverageScore # JsUndefined THEN item.coverageScore
    ELSE IF item.match # JsUndefined THEN item.match
    ELSE IF item.matchPercentage # JsUndefined THEN item.matchPercentage
    ELSE item.score

\* C23 (as claimed): filterAndSortRecipes called without a key keeps every
\* item that carries a positive value under coverageScore, match,
\* matchPercentage or score (looked up in that order), and no item is
\* followed by one whose value is greater.
C23_ResolvesFromPriorityList ==
    (sortOut.mode = "list" /\ recipesArg.type = "array") =>
        LET Resolved(item) == normalizeMatchValue(RawMatchByPriority(item))
            Ranked(out) ==
                /\ \A x \in Elements(recipesArg.items) :
                      NumGreater(Resolved(x), Frac(0, 1)) =>
                          x \in Elements(out)
                /\ \A i, j \in 1..Len(out) :
                      i < j => ~NumGreater(Resolved(out[j]), Resolved(out[i]))
        IN  /\ sortOut.libCalled => Ranked(sortOut.lib.value)
            /\ sortOut.byGetMatchCalled => Ranked(sortOut.byGetMatch.value)

\* The embedding the source gives for a text when it answers every call
\* the same way: the OpenAI vector with a key, the local one without
SourceEmbedding(text) ==
    IF openaiKey THEN OpenAIEmbedding(text) ELSE generateSimpleEmbedding(text)

DeterministicSource ==
    /\ userEmbedding.value = SourceEmbedding(join(selectedIngredients))
    /\ \A i \in 1..Len(tasks) :
          tasks[i].embedding.value = SourceEmbedding(join(recipes[i].ingredients))

\* The score of each candidate, computed from the inputs alone
ExpectedScores ==
    [i \in 1..Len(recipes) |->
        ScoreRecipe(recipes[i], selectedIngredients,
                    SourceEmbedding(join(selectedIngredients)),
                    SourceEmbedding(join(recipes[i].ingredients)),
                    cosineTable[recipes[i].id]).score]

\* The place of candidate i: behind every candidate of a greater
\* combinedScore and every earlier candidate of the same combinedScore
ExpectedRank(i) ==
    1 + Cardinality({j \in 1..Len(recipes) :
          \/ FracLess(ExpectedScores[i].combinedScore,
                      ExpectedScores[j].combinedScore)
          \/ /\ FracEq(ExpectedScores[i].combinedScore,
                       ExpectedScores[j].combinedScore)
             /\ j < i})

\* C24: with an embedding source that answers every call the same way, the
\* list generateRecipes returns is the candidates' scores, computed from the
\* inputs alone, by combinedScore descending with ties in candidate order,
\* in whatever order the scoring tasks completed.
C24_ReturnedIsFunctionOfInputs ==
    (pc = "returned" /\ DeterministicSource) =>
        /\ Len(returned) = Len(recipes)
        /\ \A i \in 1..Len(recipes) : returned[ExpectedRank(i)] = ExpectedScores[i]

\* C24 witness: a returned list with two candidates of one combinedScore
\* where the later candidate's task completed first
C24_Witness ==
    /\ pc = "returned" /\ DeterministicSource
    /\ \E i, j \in 1..Len(tasks) :
          /\ i < j
          /\ tasks[j].settledAt < tasks[i].settledAt
          /\ FracEq(tasks[i].score.combinedScore, tasks[j].score.combinedScore)
          /\ ExpectedRank(j) = ExpectedRank(i) + 1

\* No remote source gave a recipe: Spoonacular has no key, threw or
\* returned nothing, and TheMealDB returned nothing
NoRemoteRecipes ==
    /\ Len(selectedIngredients) > 0
    /\ pc \in {"scoring", "returned", "rejected"}
    /\ recipeMap = <<>>

\* C25: when no remote source gives a recipe, generateRecipes goes on to
\* score exactly the catalog, one task per catalog recipe, and returns a
\* score for each; it rejects only when a scoring task throws on its
\* embeddings, never for the failed source.
C25_RemoteFailureKeepsMocks ==
    NoRemoteRecipes =>
        /\ recipes = MOCK_RECIPES
        /\ Len(tasks) = Len(MOCK_RECIPES)
        /\ pc = "returned" =>
              /\ Len(returned) = Len(MOCK_RECIPES)
              /\ \A i \in 1..Len(MOCK_RECIPES) :
                    \E k \in 1..Len(returned) : returned[k].recipe = MOCK_RECIPES[i]
        /\ pc = "rejected" =>
              \E i \in 1..Len(tasks) :
                  /\ tasks[i].st = "rejected"
                  /\ tasks[i].embedding.value.len # userEmbedding.value.len

\* C25 witness: the Spoonacular search was called and threw (a blank
\* ingredient), TheMealDB returned nothing, and the catalog was returned
C25_Witness ==
    /\ NoRemoteRecipes
    /\ spoonacularKey
    /\ HasBlank(selectedIngredients)
    /\ pc = "returned"
    /\ Len(returned) = Len(MOCK_RECIPES)

\* C26 (as claimed): in every RecipeScore the recipe ingredients the exact
\* predicate accepts are no more than the recipe ingredients ingredientMatches
\* accepts, which are no more than the recipe's ingredients:
\* exactMatches <= matchedIngredients.length <= recipe.ingredients.length.
C26_ExactWithinMatchedWithinAll ==
    \A sc \in ProducedScores :
        /\ sc.exactMatches <= Len(sc.matchedIngredients)
        /\ Len(sc.matchedIngredients) <= Len(sc.recipe.ingredients)

\* A number of the closed interval [0, 1]
InZeroOne(x) ==
    /\ isFinite(x)
    /\ ~FracLess(x, Frac(0, 1))
    /\ ~FracLess(Frac(1, 1), x)

C28_NoTwoCandidatesOfOneName ==
    \A i, j \in 1..Len(recipes) :
        i # j => toLowerCase(recipes[i].name) # toLowerCase(recipes[j].name)

\* C30: in every RecipeScore ingredientMatchRate > 0 exactly when
\* matchedIngredients is not empty, and exactly when utilizationScore > 0.
C30_MatchRatePositiveIffMatched ==
    \A sc \in ProducedScores :
        /\ FracLess(Frac(0, 1), sc.ingredientMatchRate)
              <=> sc.matchedIngredients # <<>>
        /\ FracLess(Frac(0, 1), sc.utilizationScore)
              <=> sc.matchedIngredients # <<>>

\* C30 witness: one run with a score of positive match rate that differs
\* from its utilization, and a score of match rate 0 for a recipe that
\* has ingredients
C30_Witness ==
    /\ \E sc \in ProducedScores :
          /\ FracLess(Frac(0, 1), sc.ingredientMatchRate)
          /\ FracLess(Frac(0, 1), sc.utilizationScore)
          /\ ~FracEq(sc.ingredientMatchRate, sc.utilizationScore)
    /\ \E sc \in ProducedScores :
          /\ sc.ingredientMatchRate = Frac(0, 1)
          /\ sc.matchedIngredients = <<>>
          /\ sc.recipe.ingredients # <<>>

\* The ingredient of a slug that the store held before the last call
ExistingBefore(slug) ==
    IF SlugMapHas(canonicalIngredientsMap, slug)
    THEN SlugMapGet(canonicalIngredientsMap, slug)
    ELSE SlugMapGet(addOut.before, slug)

\* C29: after any addIngredient calls, in any order, getAllIngredients
\* lists no two entries of one slug and lists every canonical ingredient as
\* it was, with isCustom = false; no custom ingredient has the slug of a
\* canonical one or of another custom one; and adding a name whose slug the
\* store holds already returns the ingredient held and leaves the store as
\* it was.
C29_OneIngredientPerSlug ==
    /\ allOut.called =>
          /\ \A i, j \in 1..Len(allOut.list) :
                i # j => allOut.list[i].slug # allOut.list[j].slug
          /\ \A k \in 1..Len(CANONICAL_INGREDIENTS) :
                \E i \in 1..Len(allOut.list) :
                    allOut.list[i] =
                        [name |-> CANONICAL_INGREDIENTS[k],
                         slug |-> generateIngredientSlug(CANONICAL_INGREDIENTS[k]),
                         isCustom |-> FALSE]
          /\ \A i \in 1..Len(allOut.list) :
                allOut.list[i].isCustom =>
                    \A k \in 1..Len(CANONICAL_INGREDIENTS) :
                        allOut.list[i].slug
                            # generateIngredientSlug(CANONICAL_INGREDIENTS[k])
    /\ \A i, j \in 1..Len(customIngredients) :
          i # j => customIngredients[i].slug # customIngredients[j].slug
    /\ \A i \in 1..Len(customIngredients) :
          /\ customIngredients[i].isCustom
          /\ ~SlugMapHas(canonicalIngredientsMap, customIngredients[i].slug)
    /\ LET slug == generateIngredientSlug(addOut.name)
       IN  (addOut.calls > 0
            /\ (SlugMapHas(canonicalIngredientsMap, slug)
                \/ SlugMapHas(addOut.before, slug))) =>
               /\ addOut.result = ExistingBefore(slug)
               /\ customIngredients = addOut.before

\* C29 witness: after a custom ingredient was added, a name of another
\* spelling with the same slug was added, and the list has the canonical
\* ingredients and the one custom ingredient
C29_Witness ==
    /\ addOut.calls = MaxAdds
    /\ Len(addOut.before) = 1
    /\ customIngredients = addOut.before
    /\ generateIngredientSlug(addOut.name) = addOut.before[1].slug
    /\ normalizeIngredient(addOut.name) # addOut.before[1].name
    /\ addOut.result = addOut.before[1]
    /\ allOut.called
    /\ Len(allOut.list) = Len(CANONICAL_INGREDIENTS) + 1

====
